---- MODULE Spec2Model ----
(***************************************************************************)
(* Model of ProjectScanner (src/ProjectScanner.ts): the directory walk,    *)
(* the ignore rules, the per-file pipeline and the import resolution.      *)
(* Paths are strings relative to the scan root, "/"-separated, exactly as  *)
(* the scanner handles them; "" is the scan root itself.                   *)
(***************************************************************************)
EXTENDS Integers, Sequences, FiniteSets, TLC

(***************************************************************************)
(* Bounds of the model.                                                    *)
(***************************************************************************)
MaxEntries == 4
MaxFaults == 1
MaxScans == 2
MaxPanels == 2
MaxRefreshes == 1

(***************************************************************************)
(* String helpers (JavaScript String / node:path as used by the scanner).  *)
(***************************************************************************)
Ch(s, i) == SubSeq(s, i, i)

StartsWith(s, p) == Len(s) >= Len(p) /\ SubSeq(s, 1, Len(p)) = p

EndsWith(s, p) == Len(s) >= Len(p) /\ SubSeq(s, Len(s) - Len(p) + 1, Len(s)) = p

\* String.prototype.lastIndexOf, 1-based; 0 when c does not occur
LastIndexOf(s, c) ==
    LET idx == {i \in 1..Len(s) : Ch(s, i) = c}
    IN IF idx = {} THEN 0 ELSE CHOOSE i \in idx : \A j \in idx : j <= i

LowerOf(c) ==
    CASE c = "A" -> "a" [] c = "B" -> "b" [] c = "C" -> "c" [] c = "D" -> "d"
      [] c = "E" -> "e" [] c = "F" -> "f" [] c = "G" -> "g" [] c = "H" -> "h"
      [] c = "I" -> "i" [] c = "J" -> "j" [] c = "K" -> "k" [] c = "L" -> "l"
      [] c = "M" -> "m" [] c = "N" -> "n" [] c = "O" -> "o" [] c = "P" -> "p"
      [] c = "Q" -> "q" [] c = "R" -> "r" [] c = "S" -> "s" [] c = "T" -> "t"
      [] c = "U" -> "u" [] c = "V" -> "v" [] c = "W" -> "w" [] c = "X" -> "x"
      [] c = "Y" -> "y" [] c = "Z" -> "z" [] OTHER -> c

RECURSIVE ToLowerCase(_)
ToLowerCase(s) ==
    IF s = "" THEN "" ELSE LowerOf(Ch(s, 1)) \o ToLowerCase(SubSeq(s, 2, Len(s)))

\* split a path at "/" into its segments, empty segments dropped
RECURSIVE SplitFrom(_, _, _)
SplitFrom(s, i, acc) ==
    IF i > Len(s) THEN (IF acc = "" THEN << >> ELSE <<acc>>)
    ELSE IF Ch(s, i) = "/"
         THEN (IF acc = "" THEN << >> ELSE <<acc>>) \o SplitFrom(s, i + 1, "")
         ELSE SplitFrom(s, i + 1, acc \o Ch(s, i))

Segments(p) == SplitFrom(p, 1, "")

RECURSIVE JoinSegments(_)
JoinSegments(segs) ==
    IF segs = << >> THEN ""
    ELSE IF Len(segs) = 1 THEN segs[1]
    ELSE segs[1] \o "/" \o JoinSegments(Tail(segs))

\* path.basename / path.dirname on a root-relative path
Basename(p) == LET s == Segments(p) IN IF s = << >> THEN "" ELSE s[Len(s)]

Dirname(p) == LET s == Segments(p) IN IF s = << >> THEN "" ELSE JoinSegments(SubSeq(s, 1, Len(s) - 1))

\* path.extname: from the last "." of the base name, "" when there is none
\* or when the only "." is the first character
ExtName(p) ==
    LET b == Basename(p)
        i == LastIndexOf(b, ".")
    IN IF i <= 1 THEN "" ELSE SubSeq(b, i, Len(b))

\* path.join(dir, entry.name) followed by path.relative(workspaceRoot, .)
RelativeOf(dir, name) == IF dir = "" THEN name ELSE dir \o "/" \o name

\* normalisation of a segment list: "." dropped, ".." pops a segment or,
\* above the scan root, is kept as a leading ".."
RECURSIVE NormSegs(_, _)
NormSegs(todo, done) ==
    IF todo = << >> THEN done
    ELSE LET h == Head(todo) IN
         IF h = "." THEN NormSegs(Tail(todo), done)
         ELSE IF h = ".."
              THEN IF done # << >> /\ done[Len(done)] # ".."
                   THEN NormSegs(Tail(todo), SubSeq(done, 1, Len(done) - 1))
                   ELSE NormSegs(Tail(todo), Append(done, ".."))
              ELSE NormSegs(Tail(todo), Append(done, h))

\* path.relative(workspaceRoot, path.resolve(dir, importPath))
ResolveRelative(dir, importPath) ==
    JoinSegments(NormSegs(Segments(dir) \o Segments(importPath), << >>))

\* path.join(workspaceRoot, relativePath), expressed relative to the root
JoinRoot(relativePath) == JoinSegments(NormSegs(Segments(relativePath), << >>))


(***************************************************************************)
(* The `ignore` package as the scanner uses it: ig.add(content) and        *)
(* ig.ignores(relativePath).  A pattern line is a literal name, optionally *)
(* negated ("!name"), directory-only ("name/") or anchored (it contains a  *)
(* "/" before its end); blank lines and "#" comments carry no rule.        *)
(***************************************************************************)
ParseRule(line) ==
    LET neg == StartsWith(line, "!")
        body == IF neg THEN SubSeq(line, 2, Len(line)) ELSE line
        dirOnly == EndsWith(body, "/")
        pat == IF dirOnly THEN SubSeq(body, 1, Len(body) - 1) ELSE body
    IN [neg |-> neg, dirOnly |-> dirOnly,
        anchored |-> LastIndexOf(pat, "/") > 0,
        target |-> JoinSegments(Segments(pat))]

IsRuleLine(line) == line # "" /\ ~StartsWith(line, "#") /\ Segments(line) # << >> /\ line # "!"

RECURSIVE AddRules(_)
AddRules(lines) ==
    IF lines = << >> THEN << >>
    ELSE (IF IsRuleLine(Head(lines)) THEN <<ParseRule(Head(lines))>> ELSE << >>)
         \o AddRules(Tail(lines))

RuleMatches(rule, p, asDir) ==
    /\ rule.dirOnly => asDir
    /\ IF rule.anchored THEN p = rule.target ELSE Basename(p) = rule.target

\* the last matching rule decides; a negated rule un-ignores
TestOne(rules, p, asDir) ==
    LET hits == {i \in 1..Len(rules) : RuleMatches(rules[i], p, asDir)}
    IN hits # {} /\ ~rules[CHOOSE i \in hits : \A j \in hits : j <= i].neg

\* a path below an ignored directory is ignored whatever the later rules say
RECURSIVE TestPath(_, _, _)
TestPath(rules, p, asDir) ==
    IF Dirname(p) = "" THEN TestOne(rules, p, asDir)
    ELSE TestPath(rules, Dirname(p), TRUE) \/ TestOne(rules, p, asDir)

Ignores(rules, relativePath) == TestPath(rules, relativePath, FALSE)

(***************************************************************************)
(* File contents.  A content is a sequence of lines; a line is a statement *)
(* of one of the shapes the scanner's patterns look for, or plain text.    *)
(***************************************************************************)
Stmt(k, a) == [kind |-> k, arg |-> a]

\* the text of one line
RenderLine(line) ==
    CASE line.kind = "from" -> "import x from '" \o line.arg \o "'"
      [] line.kind = "require" -> "const x = require('" \o line.arg \o "')"
      [] line.kind = "dynamic" -> "import('" \o line.arg \o "')"
      [] line.kind = "cssimport" -> "@import '" \o line.arg \o "'"
      [] line.kind = "url" -> "url('" \o line.arg \o "')"
      [] line.kind = "pyimport" -> "import " \o line.arg
      [] line.kind = "pyfrom" -> "from " \o line.arg \o " import y"
      [] OTHER -> line.arg

\* the text of a file: its lines, "\n" between them
RECURSIVE TextOf(_)
TextOf(lines) ==
    IF lines = << >> THEN ""
    ELSE IF Len(lines) = 1 THEN RenderLine(lines[1])
    ELSE RenderLine(lines[1]) \o "\n" \o TextOf(Tail(lines))

\* the positions of the line breaks of a text
NewlinesOf(s) == {i \in 1..Len(s) : Ch(s, i) = "\n"}

\* String.prototype.split('\n'): the pieces between the line breaks, empty
\* pieces kept
SplitLines(s) ==
    LET nl == NewlinesOf(s)
        k == Cardinality(nl)
        pos(j) == CHOOSE i \in nl : Cardinality({x \in nl : x < i}) = j - 1
        first(j) == IF j = 1 THEN 1 ELSE pos(j - 1) + 1
        last(j) == IF j = k + 1 THEN Len(s) ELSE pos(j) - 1
    IN [j \in 1..(k + 1) |-> IF last(j) < first(j) THEN "" ELSE SubSeq(s, first(j), last(j))]

\* Array.prototype.slice(0, n)
SliceTo(seq, n) == SubSeq(seq, 1, IF Len(seq) < n THEN Len(seq) ELSE n)

\* Array.prototype.join('\n')
RECURSIVE JoinLines(_)
JoinLines(seq) ==
    IF seq = << >> THEN ""
    ELSE IF Len(seq) = 1 THEN seq[1]
    ELSE seq[1] \o "\n" \o JoinLines(Tail(seq))

(***************************************************************************)
(* The directory entries a tree may be made of, in directory-listing       *)
(* order.  The root .gitignore occurs once per content it may have.        *)
(***************************************************************************)
File(p, t) == [path |-> p, kind |-> "file", text |-> t]

Dir(p) == [path |-> p, kind |-> "dir", text |-> << >>]

\* a symbolic link: a directory entry that is neither a directory nor a file
Symlink(p) == [path |-> p, kind |-> "link", text |-> << >>]

UniverseOrder ==
    << File(".gitignore", <<Stmt("pattern", "sub/"), Stmt("pattern", "b.ts")>>),
       File(".gitignore", <<Stmt("pattern", "build/"), Stmt("pattern", "!node_modules/"),
                            Stmt("pattern", "!m.js")>>),
       Dir(".hid"),
       File(".hid/h.ts", <<Stmt("text", "")>>),
       File("U.TS", <<Stmt("text", "")>>),
       File("a.ts", <<Stmt("from", "./sub"), Stmt("from", "./b"), Stmt("from", "react"),
                      Stmt("require", "./x.txt"), Stmt("dynamic", "./.hid/h")>>),
       File("b.ts", <<Stmt("text", "")>>),
       Dir("build"),
       File("build/c.ts", <<Stmt("text", "")>>),
       Dir("node_modules"),
       File("node_modules/m.js", <<Stmt("text", "")>>),
       Dir("sub"),
       Dir("sub/.gitignore"),
       File("sub/.gitignore/g.ts", <<Stmt("text", "")>>),
       File("sub/index.ts", <<Stmt("from", "../b")>>),
       File("x.txt", <<Stmt("from", "./a")>>) >>

Universe == {UniverseOrder[i] : i \in 1..Len(UniverseOrder)}

\* the length of a file longer than a preview
LongLen == 12

\* more entries, for the resolution of imports: a bare import of a name
\* that exists in the tree, an import that nothing matches, a file in the
\* directory above the scan root ("../o.ts"), Python modules, a long file
ResolveOrder ==
    << File("../o.ts", <<Stmt("text", "")>>),
       File("e.ts", <<Stmt("from", "react"), Stmt("from", "./missing"), Stmt("from", "../o"),
                      Stmt("text", "// notes"), Stmt("require", "./long.md"),
                      Stmt("from", "./long.md")>>),
       File("long.md", [i \in 1..LongLen |-> Stmt("text", IF i % 2 = 0 THEN "" ELSE "x")]),
       File("m.py", <<Stmt("pyfrom", "pkg.sub"), Stmt("pyimport", "util.io"),
                      Stmt("pyfrom", "nothere")>>),
       Dir("pkg"),
       File("pkg/sub.py", <<Stmt("pyfrom", "util")>>),
       File("react", <<Stmt("text", "")>>),
       File("react.ts", <<Stmt("text", "")>>),
       File("util.py", <<Stmt("text", "")>>) >>

ResolveUniverse == {ResolveOrder[i] : i \in 1..Len(ResolveOrder)}

\* more entries, for the order of the probing: p.ts imports './q' three
\* times and './q.ts' once, and './r'; q and r may exist as such, or with
\* one of the probed suffixes
ProbeOrder ==
    << File("p.ts", <<Stmt("from", "./q"), Stmt("text", "// notes"), Stmt("dynamic", "./q"),
                      Stmt("require", "./r"), Stmt("from", "./q.ts"), Stmt("from", "./q")>>),
       File("q", <<Stmt("text", "")>>),
       File("q.css", <<Stmt("text", "")>>),
       File("q.js", <<Stmt("text", "")>>),
       File("q.ts", <<Stmt("text", "")>>),
       File("q.tsx", <<Stmt("text", "")>>),
       Dir("r"),
       File("r.js", <<Stmt("text", "")>>),
       File("r/index.ts", <<Stmt("text", "")>>) >>

ProbeUniverse == {ProbeOrder[i] : i \in 1..Len(ProbeOrder)}

\* more entries, with symbolic links whose targets exist: t/up names the
\* scan root, ln.ts names a file outside the scan root
LinkOrder ==
    << File("k.ts", <<Stmt("from", "./t/n"), Stmt("from", "./ln")>>),
       Symlink("ln.ts"),
       Dir("t"),
       File("t/n.ts", <<Stmt("from", "../k")>>),
       Symlink("t/up") >>

LinkUniverse == {LinkOrder[i] : i \in 1..Len(LinkOrder)}

\* the order directory listings come in
ListingOrder == UniverseOrder \o ResolveOrder \o ProbeOrder \o LinkOrder

VARIABLES
    rootKind,     \* what workspaceRoot names: "dir", "file" or "missing"
    fs,           \* the entries below the scan root
    statFails,    \* files whose stat fails
    readFails,    \* files whose read fails
    listFails,    \* directories whose listing fails
    ig,           \* this.ig: the rules loaded by the constructor
    cur,          \* the arrays this.nodes / this.links currently refer to
    heapNodes,    \* the node arrays allocated so far
    heapLinks,    \* the link arrays allocated so far
    status,       \* per scan() call: "idle", "running", "resolved", "rejected"
    stack,        \* per scan() call: the scanDirectory activations
    result,       \* per scan() call: the arrays of the returned GraphData
    treeAt,       \* per scan() call: the tree as it was when scan() was invoked
    awaited,      \* per scan() call: the operations it has awaited, as they settled
    workspace,    \* whether vscode.workspace.workspaceFolders is defined
    currentPanel, \* GraphPanel.currentPanel: a panel, or 0 for undefined
    life,         \* per panel: "none", "live" or "disposed" (the WebviewPanel)
    disposables,  \* per panel: this._disposables
    disposeCalls, \* per panel and disposable: how often its dispose() has been called
    disposedVia,  \* per panel: how dispose() was entered, "event" or "call"
    lastCommand,  \* what the last showGraph command did: "created" or "revealed"
    updates,      \* per panel: the _update() calls, each "scanning", "posted", "failed" or "nofolder"
    posts,        \* per panel: the postMessage calls of _update, in order
    lastData,     \* per webview: the data of the last message posted to it
    libs,         \* per webview: whether ForceGraph and d3 are defined
    graph,        \* per webview: the variable Graph, "undefined" or "ready"
    inbox,        \* per webview: the messages on their way to the listener
    graphData,    \* per webview: the variable graphData
    rendered      \* per webview: what Graph.graphData() was last given

scanVars == <<rootKind, fs, statFails, readFails, listFails, ig, cur, heapNodes,
              heapLinks, status, stack, result, treeAt, awaited>>

hostVars == <<workspace, currentPanel, life, disposables, disposeCalls, disposedVia, lastCommand,
              updates, posts, lastData, libs, graph, inbox, graphData, rendered>>

vars == <<scanVars, hostVars>>

Calls == 1..MaxScans

NoGraph == -1

(***************************************************************************)
(* File system queries.                                                    *)
(***************************************************************************)
Paths(tree) == {e.path : e \in tree}

EntryAt(tree, p) == CHOOSE e \in tree : e.path = p

IsDir(tree, p) == \E e \in tree : e.path = p /\ e.kind = "dir"

IsFile(tree, p) == \E e \in tree : e.path = p /\ e.kind = "file"

\* a tree names each path once and holds every entry's parent directory
\* (an entry of the directory above the scan root needs none)
WellFormed(tree) ==
    /\ \A e1, e2 \in tree : e1.path = e2.path => e1 = e2
    /\ \A e \in tree : Dirname(e.path) \notin {"", ".."} => IsDir(tree, Dirname(e.path))

\* fs.promises.readdir(dir, {withFileTypes: true}), on success
Listing(tree, dir) ==
    SelectSeq(ListingOrder, LAMBDA e : e \in tree /\ Dirname(e.path) = dir)

ListFails(dir) ==
    \/ rootKind # "dir"
    \/ dir \in listFails
    \/ dir # "" /\ ~IsDir(fs, dir)

\* fs.existsSync(path.join(workspaceRoot, relativePath))
fileExists(relativePath) ==
    /\ rootKind # "missing"
    /\ LET p == JoinRoot(relativePath)
       IN IF p = "" THEN TRUE ELSE rootKind = "dir" /\ p \in Paths(fs)

\* loadGitignore: the rules of the root .gitignore, none when it is absent
loadGitignore(kind, tree) ==
    IF kind = "dir" /\ ".gitignore" \in Paths(tree)
    THEN AddRules([i \in 1..Len(EntryAt(tree, ".gitignore").text) |->
                       EntryAt(tree, ".gitignore").text[i].arg])
    ELSE << >>

(***************************************************************************)
(* ProjectScanner: the pure parts.                                         *)
(***************************************************************************)
supportedExtensions ==
    {".ts", ".tsx", ".js", ".jsx", ".css", ".scss", ".html", ".py", ".java",
     ".c", ".cpp", ".h", ".json", ".md", ".go", ".rs", ".php"}

\* the extension compared as written
isCodeFile_CaseSensitive(filename) == ExtName(filename) \in supportedExtensions

\* any extension at all accepted
isCodeFile_AnyExtension(filename) == ExtName(filename) # ""

isCodeFile(filename) == ToLowerCase(ExtName(filename)) \in supportedExtensions

Denylist == {"node_modules", "dist", "out", "build", "target", "vendor"}

\* the three skip tests of the scanDirectory loop
IsHidden(name) == StartsWith(name, ".") /\ name # ".gitignore"

\* "build" missing from the list
IsDenied_NoBuild(name) == name \in Denylist \ {"build"}

IsDenied(name) == name \in Denylist

\* the ignore rules not consulted
Skipped_NoIgnore(rules, name, relativePath) == IsHidden(name) \/ IsDenied(name)

Skipped(rules, name, relativePath) ==
    IsHidden(name) \/ IsDenied(name) \/ Ignores(rules, relativePath)

\* \w of the Python patterns
IsWordChar(c) ==
    \/ ToLowerCase(c) \in {"a", "b", "c", "d", "e", "f", "g", "h", "i", "j", "k", "l", "m",
                           "n", "o", "p", "q", "r", "s", "t", "u", "v", "w", "x", "y", "z"}
    \/ c \in {"0", "1", "2", "3", "4", "5", "6", "7", "8", "9", "_"}

RECURSIVE WordPrefix(_)
WordPrefix(s) ==
    IF s = "" \/ ~IsWordChar(Ch(s, 1)) THEN ""
    ELSE Ch(s, 1) \o WordPrefix(SubSeq(s, 2, Len(s)))

\* what one line adds to importPaths; "" stands for a capture that is
\* empty or absent, which the resolution loop skips
Captured(ext, line) ==
    IF ext \in {".ts", ".tsx", ".js", ".jsx"}
    THEN (IF line.kind \in {"from", "require", "dynamic"} THEN <<line.arg>> ELSE << >>)
    ELSE IF ext \in {".css", ".scss"}
    THEN (IF line.kind \in {"cssimport", "url"} THEN <<line.arg>> ELSE << >>)
    ELSE IF ext = ".py"
    THEN (IF line.kind = "pyimport" /\ WordPrefix(line.arg) # ""
          THEN <<WordPrefix(line.arg)>>
          ELSE IF line.kind = "pyfrom" /\ line.arg # "" /\ WordPrefix(line.arg) = line.arg
          THEN <<line.arg>>
          ELSE << >>)
    ELSE << >>

RECURSIVE ImportPaths(_, _)
ImportPaths(ext, content) ==
    IF content = << >> THEN << >>
    ELSE Captured(ext, Head(content)) \o ImportPaths(ext, Tail(content))

\* the list in another order
extensions_JsFirst == <<".js", ".jsx", ".ts", ".tsx", ".css", ".scss", "/index.js", "/index.ts">>

extensions == <<".ts", ".tsx", ".js", ".jsx", ".css", ".scss", "/index.ts", "/index.js">>

\* the found candidate is not appended to the path
Probe_NoAppend(targetRelativePath, i) == targetRelativePath

\* the candidate the probing loop settles on: the first existing one,
\* the unchanged path when none exists
RECURSIVE Probe(_, _)
Probe(targetRelativePath, i) ==
    IF i > Len(extensions) THEN targetRelativePath
    ELSE IF fileExists(targetRelativePath \o extensions[i])
         THEN targetRelativePath \o extensions[i]
         ELSE Probe(targetRelativePath, i + 1)

\* importPath.replace(/\./g, '/')
RECURSIVE ReplaceDots(_)
ReplaceDots(s) ==
    IF s = "" THEN ""
    ELSE (IF Ch(s, 1) = "." THEN "/" ELSE Ch(s, 1)) \o ReplaceDots(SubSeq(s, 2, Len(s)))

\* the final existence test dropped
LinksOfImport_NoExistCheck(ext, dir, relativeId, importPath) ==
    IF importPath = "" THEN << >>
    ELSE IF StartsWith(importPath, ".")
    THEN LET exact == ResolveRelative(dir, importPath)
             targetRelativePath == IF ~fileExists(exact) THEN Probe(exact, 1) ELSE exact
         IN IF ~StartsWith(targetRelativePath, "..")
            THEN <<[source |-> relativeId, target |-> targetRelativePath]>>
            ELSE << >>
    ELSE IF ext = ".py"
    THEN <<[source |-> relativeId, target |-> ReplaceDots(importPath) \o ".py"]>>
    ELSE << >>

\* every import path resolved as a relative one
LinksOfImport_BareResolved(ext, dir, relativeId, importPath) ==
    IF importPath = "" THEN << >>
    ELSE LET exact == ResolveRelative(dir, importPath)
             targetRelativePath == IF ~fileExists(exact) THEN Probe(exact, 1) ELSE exact
         IN IF ~StartsWith(targetRelativePath, "..") /\ fileExists(targetRelativePath)
            THEN <<[source |-> relativeId, target |-> targetRelativePath]>>
            ELSE << >>

\* the test that the target stays below the scan root dropped
LinksOfImport_NoRootCheck(ext, dir, relativeId, importPath) ==
    IF importPath = "" THEN << >>
    ELSE IF StartsWith(importPath, ".")
    THEN LET exact == ResolveRelative(dir, importPath)
             targetRelativePath == IF ~fileExists(exact) THEN Probe(exact, 1) ELSE exact
         IN IF fileExists(targetRelativePath)
            THEN <<[source |-> relativeId, target |-> targetRelativePath]>>
            ELSE << >>
    ELSE IF ext = ".py"
    THEN LET possiblePyFile == ReplaceDots(importPath) \o ".py"
         IN IF fileExists(possiblePyFile)
            THEN <<[source |-> relativeId, target |-> possiblePyFile]>>
            ELSE << >>
    ELSE << >>

\* the Links one import path yields (none or one)
LinksOfImport(ext, dir, relativeId, importPath) ==
    IF importPath = "" THEN << >>
    ELSE IF StartsWith(importPath, ".")
    THEN LET exact == ResolveRelative(dir, importPath)
             targetRelativePath == IF ~fileExists(exact) THEN Probe(exact, 1) ELSE exact
         IN IF ~StartsWith(targetRelativePath, "..") /\ fileExists(targetRelativePath)
            THEN <<[source |-> relativeId, target |-> targetRelativePath]>>
            ELSE << >>
    ELSE IF ext = ".py"
    THEN LET possiblePyFile == ReplaceDots(importPath) \o ".py"
         IN IF fileExists(possiblePyFile)
            THEN <<[source |-> relativeId, target |-> possiblePyFile]>>
            ELSE << >>
    ELSE << >>

\* a Link already pushed for the file is not pushed again
RECURSIVE LinksOfImports_Dedup(_, _, _, _)
LinksOfImports_Dedup(ext, dir, relativeId, importPaths) ==
    IF importPaths = << >> THEN << >>
    ELSE LET here == LinksOfImport(ext, dir, relativeId, Head(importPaths))
             rest == LinksOfImports_Dedup(ext, dir, relativeId, Tail(importPaths))
         IN here \o SelectSeq(rest, LAMBDA l : here = << >> \/ l # here[1])

RECURSIVE LinksOfImports(_, _, _, _)
LinksOfImports(ext, dir, relativeId, importPaths) ==
    IF importPaths = << >> THEN << >>
    ELSE LinksOfImport(ext, dir, relativeId, Head(importPaths))
         \o LinksOfImports(ext, dir, relativeId, Tail(importPaths))

\* the links parseDependenciesFromContent pushes for one file
parseDependenciesFromContent(content, relativeId) ==
    LET ext == ToLowerCase(ExtName(relativeId))
    IN LinksOfImports(ext, Dirname(relativeId), relativeId, ImportPaths(ext, content))

PreviewLines == 10

\* the preview is the whole content
NodeOf_WholeContent(relativePath, fileName, size, content) ==
    [id |-> relativePath,
     name |-> fileName,
     type |-> ExtName(fileName),
     size |-> size,
     preview |-> TextOf(content)]

\* the Node processFile pushes
NodeOf(relativePath, fileName, size, content) ==
    [id |-> relativePath,
     name |-> fileName,
     type |-> ExtName(fileName),
     size |-> size,
     preview |-> JoinLines(SliceTo(SplitLines(TextOf(content)), PreviewLines))]

(***************************************************************************)
(* ProjectScanner: the walk.  A scan() call is a stack of scanDirectory    *)
(* activations; the top one is suspended at one of the awaits: the         *)
(* directory listing ("readdir"), or the stat ("stat") or read ("read") of *)
(* the file it is processing.  Between two awaits the code runs without    *)
(* interruption.                                                           *)
(***************************************************************************)
Frame(dir, pc, entries, file, size) ==
    [dir |-> dir, pc |-> pc, entries |-> entries, file |-> file, size |-> size]

Top(stk) == stk[Len(stk)]

Pop(stk) == SubSeq(stk, 1, Len(stk) - 1)

SetTop(stk, f) == [stk EXCEPT ![Len(stk)] = f]

\* a symbolic link is taken for the directory it may name
RECURSIVE Advance_FollowsLinks(_, _)
Advance_FollowsLinks(rules, stk) ==
    IF stk = << >> THEN stk
    ELSE LET top == Top(stk) IN
         IF top.entries = << >> THEN Advance_FollowsLinks(rules, Pop(stk))
         ELSE LET entry == Head(top.entries)
                  name == Basename(entry.path)
                  relativePath == RelativeOf(top.dir, name)
                  rest == [top EXCEPT !.entries = Tail(top.entries), !.pc = "loop"]
              IN IF Skipped(rules, name, relativePath)
                 THEN Advance_FollowsLinks(rules, SetTop(stk, rest))
                 ELSE IF entry.kind \in {"dir", "link"}
                 THEN Append(SetTop(stk, rest), Frame(relativePath, "readdir", << >>, "", 0))
                 ELSE IF entry.kind = "file" /\ isCodeFile(name)
                 THEN SetTop(stk, [rest EXCEPT !.pc = "stat", !.file = name])
                 ELSE Advance_FollowsLinks(rules, SetTop(stk, rest))

\* the for loop of scanDirectory, run from the resumption of the top
\* activation up to the next await; the empty stack is the return of the
\* outermost scanDirectory
RECURSIVE Advance(_, _)
Advance(rules, stk) ==
    IF stk = << >> THEN stk
    ELSE LET top == Top(stk) IN
         IF top.entries = << >> THEN Advance(rules, Pop(stk))
         ELSE LET entry == Head(top.entries)
                  name == Basename(entry.path)
                  relativePath == RelativeOf(top.dir, name)
                  rest == [top EXCEPT !.entries = Tail(top.entries), !.pc = "loop"]
              IN IF Skipped(rules, name, relativePath) THEN Advance(rules, SetTop(stk, rest))
                 ELSE IF entry.kind = "dir"
                 THEN Append(SetTop(stk, rest), Frame(relativePath, "readdir", << >>, "", 0))
                 ELSE IF entry.kind = "file" /\ isCodeFile(name)
                 THEN SetTop(stk, [rest EXCEPT !.pc = "stat", !.file = name])
                 ELSE Advance(rules, SetTop(stk, rest))

\* the operation call c is suspended at
Pending(c) ==
    [op |-> Top(stack[c]).pc,
     path |-> IF Top(stack[c]).pc = "readdir" THEN Top(stack[c]).dir
              ELSE RelativeOf(Top(stack[c]).dir, Top(stack[c]).file)]

\* the state of call c once its stack is stk: an empty stack is the
\* return of scan() with the arrays this.nodes / this.links refer to
Continue(c, stk) ==
    /\ stack' = [stack EXCEPT ![c] = stk]
    /\ status' = [status EXCEPT ![c] = IF stk = << >> THEN "resolved" ELSE "running"]
    /\ result' = [result EXCEPT ![c] = IF stk = << >> THEN cur ELSE NoGraph]
    /\ awaited' = [awaited EXCEPT ![c] = Append(@, Pending(c))]

\* this.links is not replaced: the new scan starts from the Links so far
Scan_LinksKept(c) ==
    /\ status[c] = "idle"
    /\ \A d \in Calls : d < c => status[d] \in {"resolved", "rejected"}
    /\ cur < MaxScans
    /\ cur' = cur + 1
    /\ heapNodes' = [heapNodes EXCEPT ![cur + 1] = << >>]
    /\ heapLinks' = [heapLinks EXCEPT ![cur + 1] = heapLinks[cur]]
    /\ status' = [status EXCEPT ![c] = "running"]
    /\ stack' = [stack EXCEPT ![c] = <<Frame("", "readdir", << >>, "", 0)>>]
    /\ treeAt' = [treeAt EXCEPT ![c] = fs]
    /\ awaited' = [awaited EXCEPT ![c] = << >>]
    /\ UNCHANGED <<hostVars, rootKind, fs, statFails, readFails, listFails, ig, result>>

\* the arrays are not emptied: the new scan starts from the Nodes and Links so far
Scan_NoReset(c) ==
    /\ status[c] = "idle"
    /\ \A d \in Calls : d < c => status[d] \in {"resolved", "rejected"}
    /\ cur < MaxScans
    /\ cur' = cur + 1
    /\ heapNodes' = [heapNodes EXCEPT ![cur + 1] = heapNodes[cur]]
    /\ heapLinks' = [heapLinks EXCEPT ![cur + 1] = heapLinks[cur]]
    /\ status' = [status EXCEPT ![c] = "running"]
    /\ stack' = [stack EXCEPT ![c] = <<Frame("", "readdir", << >>, "", 0)>>]
    /\ treeAt' = [treeAt EXCEPT ![c] = fs]
    /\ awaited' = [awaited EXCEPT ![c] = << >>]
    /\ UNCHANGED <<hostVars, rootKind, fs, statFails, readFails, listFails, ig, result>>

\* scan(): fresh arrays, then the listing of the root is requested
Scan(c) ==
    /\ status[c] = "idle"
    /\ \A d \in Calls : d < c => status[d] \in {"resolved", "rejected"}
    /\ cur < MaxScans
    /\ cur' = cur + 1
    /\ heapNodes' = [heapNodes EXCEPT ![cur + 1] = << >>]
    /\ heapLinks' = [heapLinks EXCEPT ![cur + 1] = << >>]
    /\ status' = [status EXCEPT ![c] = "running"]
    /\ stack' = [stack EXCEPT ![c] = <<Frame("", "readdir", << >>, "", 0)>>]
    /\ treeAt' = [treeAt EXCEPT ![c] = fs]
    /\ awaited' = [awaited EXCEPT ![c] = << >>]
    /\ UNCHANGED <<hostVars, rootKind, fs, statFails, readFails, listFails, ig, result>>

\* scan() invoked on the same scanner while an earlier call is suspended at
\* an await: this.nodes and this.links are replaced under the running walk
ScanAgain(c) ==
    /\ status[c] = "idle"
    /\ \A d \in Calls : d < c => status[d] # "idle"
    /\ \E d \in Calls : d < c /\ status[d] = "running"
    /\ cur < MaxScans
    /\ cur' = cur + 1
    /\ heapNodes' = [heapNodes EXCEPT ![cur + 1] = << >>]
    /\ heapLinks' = [heapLinks EXCEPT ![cur + 1] = << >>]
    /\ status' = [status EXCEPT ![c] = "running"]
    /\ stack' = [stack EXCEPT ![c] = <<Frame("", "readdir", << >>, "", 0)>>]
    /\ treeAt' = [treeAt EXCEPT ![c] = fs]
    /\ awaited' = [awaited EXCEPT ![c] = << >>]
    /\ UNCHANGED <<hostVars, rootKind, fs, statFails, readFails, listFails, ig, result>>

\* the activation once its listing has arrived
Listed(top) == [top EXCEPT !.pc = "loop", !.entries = Listing(fs, top.dir)]

\* readdir resolves: the loop starts on the listing
ReaddirOk(c) ==
    /\ status[c] = "running"
    /\ Top(stack[c]).pc = "readdir"
    /\ ~ListFails(Top(stack[c]).dir)
    /\ Continue(c, Advance(ig, SetTop(stack[c], Listed(Top(stack[c])))))
    /\ UNCHANGED <<hostVars, rootKind, fs, treeAt, statFails, readFails, listFails, ig, cur, heapNodes, heapLinks>>

\* the rejection swallowed: the directory counts as empty
ReaddirFail_Swallowed(c) ==
    /\ status[c] = "running"
    /\ Top(stack[c]).pc = "readdir"
    /\ ListFails(Top(stack[c]).dir)
    /\ Continue(c, Advance(ig, Pop(stack[c])))
    /\ UNCHANGED <<hostVars, rootKind, fs, treeAt, statFails, readFails, listFails, ig, cur, heapNodes, heapLinks>>

\* readdir rejects: nothing catches it, scan() rejects
ReaddirFail(c) ==
    /\ status[c] = "running"
    /\ Top(stack[c]).pc = "readdir"
    /\ ListFails(Top(stack[c]).dir)
    /\ stack' = [stack EXCEPT ![c] = << >>]
    /\ status' = [status EXCEPT ![c] = "rejected"]
    /\ result' = [result EXCEPT ![c] = NoGraph]
    /\ awaited' = [awaited EXCEPT ![c] = Append(@, Pending(c))]
    /\ UNCHANGED <<hostVars, rootKind, fs, treeAt, statFails, readFails, listFails, ig, cur, heapNodes, heapLinks>>

CurrentFile(c) == RelativeOf(Top(stack[c]).dir, Top(stack[c]).file)

StatFails(p) == p \in statFails \/ p \notin Paths(fs)

ReadFails(p) == p \in readFails \/ ~IsFile(fs, p)

\* stats.size: the length of the text
SizeOf(p) == Len(TextOf(EntryAt(fs, p).text))

\* processFile: stat resolves, the read is requested
StatOk(c) ==
    /\ status[c] = "running"
    /\ Top(stack[c]).pc = "stat"
    /\ ~StatFails(CurrentFile(c))
    /\ stack' = [stack EXCEPT ![c] =
                    SetTop(@, [Top(@) EXCEPT !.pc = "read", !.size = SizeOf(CurrentFile(c))])]
    /\ awaited' = [awaited EXCEPT ![c] = Append(@, Pending(c))]
    /\ UNCHANGED <<hostVars, rootKind, fs, treeAt, statFails, readFails, listFails, ig, cur,
                   heapNodes, heapLinks, status, result>>

\* processFile: stat rejects, the catch logs it and the loop goes on
StatFail(c) ==
    /\ status[c] = "running"
    /\ Top(stack[c]).pc = "stat"
    /\ StatFails(CurrentFile(c))
    /\ Continue(c, Advance(ig, stack[c]))
    /\ UNCHANGED <<hostVars, rootKind, fs, treeAt, statFails, readFails, listFails, ig, cur, heapNodes, heapLinks>>

\* what readFile resolves with
ContentRead(relativePath) == EntryAt(fs, relativePath).text

\* processFile: the read resolves, the Node and the Links are pushed
ReadOk(c) ==
    /\ status[c] = "running"
    /\ Top(stack[c]).pc = "read"
    /\ ~ReadFails(CurrentFile(c))
    /\ heapNodes' = [heapNodes EXCEPT ![cur] =
                         Append(@, NodeOf(CurrentFile(c), Top(stack[c]).file,
                                          Top(stack[c]).size, ContentRead(CurrentFile(c))))]
    /\ heapLinks' = [heapLinks EXCEPT ![cur] =
                         @ \o parseDependenciesFromContent(ContentRead(CurrentFile(c)),
                                                           CurrentFile(c))]
    /\ Continue(c, Advance(ig, stack[c]))
    /\ UNCHANGED <<hostVars, rootKind, fs, treeAt, statFails, readFails, listFails, ig, cur>>

\* no catch around the read: the rejection reaches scan()
ReadFail_Uncaught(c) ==
    /\ status[c] = "running"
    /\ Top(stack[c]).pc = "read"
    /\ ReadFails(CurrentFile(c))
    /\ stack' = [stack EXCEPT ![c] = << >>]
    /\ status' = [status EXCEPT ![c] = "rejected"]
    /\ result' = [result EXCEPT ![c] = NoGraph]
    /\ awaited' = [awaited EXCEPT ![c] = Append(@, Pending(c))]
    /\ UNCHANGED <<hostVars, rootKind, fs, treeAt, statFails, readFails, listFails, ig, cur, heapNodes, heapLinks>>

\* processFile: the read rejects, the catch logs it and the loop goes on
ReadFail(c) ==
    /\ status[c] = "running"
    /\ Top(stack[c]).pc = "read"
    /\ ReadFails(CurrentFile(c))
    /\ Continue(c, Advance(ig, stack[c]))
    /\ UNCHANGED <<hostVars, rootKind, fs, treeAt, statFails, readFails, listFails, ig, cur, heapNodes, heapLinks>>

(***************************************************************************)
(* GraphPanel (src/GraphPanel.ts), the host side: the command that opens   *)
(* or reveals the panel, the updates (one scan each, on a scanner of its   *)
(* own) and the disposal.  0 stands for an undefined currentPanel.         *)
(***************************************************************************)
Panels == 1..MaxPanels

\* the disposables the constructor registers: the listeners of onDidDispose
\* and of onDidReceiveMessage
Registered == <<"onDidDispose", "onDidReceiveMessage">>

\* what dispose() reads and writes of panel p
DisposalState(p) ==
    [current |-> currentPanel, life |-> life[p], disposables |-> disposables[p],
     calls |-> disposeCalls[p]]

\* the loop of dispose() stops with one disposable left
RECURSIVE DisposeAll_LeavesOne(_)
DisposeAll_LeavesOne(st) ==
    IF Len(st.disposables) <= 1 THEN st
    ELSE LET x == st.disposables[Len(st.disposables)]
         IN DisposeAll_LeavesOne([st EXCEPT !.disposables = SubSeq(@, 1, Len(@) - 1),
                                            !.calls[x] = @ + 1])

\* the loop of dispose(): pop a disposable and dispose it, until none is left
RECURSIVE DisposeAll(_)
DisposeAll(st) ==
    IF Len(st.disposables) = 0 THEN st
    ELSE LET x == st.disposables[Len(st.disposables)]
         IN DisposeAll([st EXCEPT !.disposables = SubSeq(@, 1, Len(@) - 1),
                                  !.calls[x] = @ + 1])

RECURSIVE dispose(_)

\* WebviewPanel.dispose() of the editor: nothing on a disposed panel;
\* otherwise the panel is marked disposed and onDidDispose fires, which runs
\* the listener of the constructor (a call of dispose()) unless that
\* listener has been disposed
PanelDispose(st) ==
    IF st.life = "disposed" THEN st
    ELSE IF st.calls["onDidDispose"] = 0
         THEN dispose([st EXCEPT !.life = "disposed"])
         ELSE [st EXCEPT !.life = "disposed"]

\* GraphPanel.dispose()
dispose(st) == DisposeAll(PanelDispose([st EXCEPT !.current = 0]))

\* _update(): without a workspace folder an error is shown and nothing is
\* scanned
Update == IF workspace THEN "scanning" ELSE "nofolder"

\* the test for an existing panel left out
createOrShow_AlwaysCreates ==
    /\ \E p \in Panels :
           /\ life[p] = "none" /\ \A q \in Panels : q < p => life[q] # "none"
           /\ life' = [life EXCEPT ![p] = "live"]
           /\ disposables' = [disposables EXCEPT ![p] = Registered]
           /\ updates' = [updates EXCEPT ![p] = <<Update>>]
           /\ currentPanel' = p
    /\ lastCommand' = "created"
    /\ UNCHANGED <<scanVars, workspace, disposeCalls, disposedVia, posts, lastData, libs, graph, inbox,
                   graphData, rendered>>

\* the command code-constellation.showGraph: GraphPanel.createOrShow
createOrShow ==
    /\ IF currentPanel # 0
       THEN /\ lastCommand' = "revealed"
            /\ UNCHANGED <<currentPanel, life, disposables, updates>>
       ELSE /\ \E p \in Panels :
                   /\ life[p] = "none" /\ \A q \in Panels : q < p => life[q] # "none"
                   /\ life' = [life EXCEPT ![p] = "live"]
                   /\ disposables' = [disposables EXCEPT ![p] = Registered]
                   /\ updates' = [updates EXCEPT ![p] = <<Update>>]
                   /\ currentPanel' = p
            /\ lastCommand' = "created"
    /\ UNCHANGED <<scanVars, workspace, disposeCalls, disposedVia, posts, lastData, libs, graph, inbox,
                   graphData, rendered>>

\* the 'refresh' messages received so far, by all panels
Refreshes ==
    Cardinality({pk \in Panels \X (2..(MaxRefreshes + 1)) : pk[2] <= Len(updates[pk[1]])})

\* the webview sends 'refresh' (the Rescan button) and the listener of the
\* constructor calls _update()
Refresh(p) ==
    /\ life[p] = "live"
    /\ disposeCalls[p]["onDidReceiveMessage"] = 0
    /\ Refreshes < MaxRefreshes
    /\ updates' = [updates EXCEPT ![p] = Append(@, Update)]
    /\ UNCHANGED <<scanVars, workspace, currentPanel, life, disposables, disposeCalls,
                   disposedVia, lastCommand, posts, lastData, libs, graph, inbox, graphData, rendered>>

\* Graphs a scan of the workspace folder may resolve with.  In the first
\* the link to sub/index.ts has no node (the file was ignored) and the
\* link a.ts -> b.ts is there three times.
Link(s, t) == [source |-> s, target |-> t]

GraphAB ==
    [nodes |-> <<NodeOf("a.ts", "a.ts", 0, << >>), NodeOf("b.ts", "b.ts", 0, << >>)>>,
     links |-> <<Link("a.ts", "sub/index.ts"), Link("a.ts", "b.ts"), Link("a.ts", "b.ts"),
                 Link("b.ts", "a.ts"), Link("a.ts", "b.ts")>>]

GraphA == [nodes |-> <<NodeOf("a.ts", "a.ts", 0, << >>)>>, links |-> << >>]

Graphs == {GraphAB, GraphA}

\* the graphData of a webview before any message: no node, no link
NoData == [nodes |-> << >>, links |-> << >>]

\* the scan of update k of panel p resolves with data and _update() posts
\* it: this._panel.webview.postMessage({command: 'updateData', data}).  A
\* disposed panel has no webview to receive it.
ScanResolves(p, k, data) ==
    /\ k \in 1..Len(updates[p])
    /\ updates[p][k] = "scanning"
    /\ updates' = [updates EXCEPT ![p][k] = "posted"]
    /\ posts' = [posts EXCEPT ![p] = Append(@, [req |-> k, live |-> life[p] = "live"])]
    /\ lastData' = [lastData EXCEPT ![p] = IF life[p] = "live" THEN data ELSE @]
    /\ inbox' = [inbox EXCEPT ![p] = IF life[p] = "live" THEN Append(@, data) ELSE @]
    /\ UNCHANGED <<scanVars, workspace, currentPanel, life, disposables, disposeCalls,
                   disposedVia, lastCommand, libs, graph, graphData, rendered>>

\* the scan of update k of panel p rejects: nothing is posted
ScanRejects(p, k) ==
    /\ k \in 1..Len(updates[p])
    /\ updates[p][k] = "scanning"
    /\ updates' = [updates EXCEPT ![p][k] = "failed"]
    /\ UNCHANGED <<scanVars, workspace, currentPanel, life, disposables, disposeCalls,
                   disposedVia, lastCommand, posts, lastData, libs, graph, inbox, graphData, rendered>>

\* the state of panel p after a disposal that ended in st; its webview is
\* gone with it
Disposed(p, st, entry) ==
    /\ currentPanel' = st.current
    /\ life' = [life EXCEPT ![p] = st.life]
    /\ disposables' = [disposables EXCEPT ![p] = st.disposables]
    /\ disposeCalls' = [disposeCalls EXCEPT ![p] = st.calls]
    /\ disposedVia' = [disposedVia EXCEPT ![p] = entry]
    /\ libs' = [libs EXCEPT ![p] = FALSE]
    /\ graph' = [graph EXCEPT ![p] = "undefined"]
    /\ inbox' = [inbox EXCEPT ![p] = << >>]
    /\ graphData' = [graphData EXCEPT ![p] = NoData]
    /\ rendered' = [rendered EXCEPT ![p] = NoData]
    /\ lastData' = [lastData EXCEPT ![p] = NoData]
    /\ UNCHANGED <<scanVars, workspace, lastCommand, updates, posts>>

\* the user closes the panel: the editor disposes it and onDidDispose runs
\* dispose()
ClosePanel(p) ==
    /\ life[p] = "live"
    /\ Disposed(p, PanelDispose(DisposalState(p)), "event")

\* dispose() is called on a live GraphPanel
DisposeCall(p) ==
    /\ life[p] = "live"
    /\ Disposed(p, dispose(DisposalState(p)), "call")

(***************************************************************************)
(* GraphPanel (src/GraphPanel.ts), the script of the webview.              *)
(***************************************************************************)
\* the scripts of force-graph and d3 have loaded
LibsLoad(p) ==
    /\ life[p] = "live"
    /\ ~libs[p]
    /\ libs' = [libs EXCEPT ![p] = TRUE]
    /\ UNCHANGED <<scanVars, workspace, currentPanel, life, disposables, disposeCalls,
                   disposedVia, lastCommand, updates, posts, lastData, graph, inbox, graphData, rendered>>

\* initGraph(), at the end of the script or from its timer: without the
\* libraries it only sets the timer again, with them it creates Graph
initGraph(p) ==
    /\ life[p] = "live"
    /\ graph[p] = "undefined"
    /\ graph' = [graph EXCEPT ![p] = IF libs[p] THEN "ready" ELSE "undefined"]
    /\ UNCHANGED <<scanVars, workspace, currentPanel, life, disposables, disposeCalls,
                   disposedVia, lastCommand, updates, posts, lastData, libs, inbox, graphData, rendered>>

\* the index of the first link with the source and target of l
FindIndex(links, l) ==
    CHOOSE i \in 1..Len(links) :
        /\ links[i].source = l.source /\ links[i].target = l.target
        /\ \A j \in 1..(i - 1) : ~(links[j].source = l.source /\ links[j].target = l.target)

\* the filter keeps every link whose ends are nodes, duplicates too
RECURSIVE cleanLinks_KeepsDuplicates(_, _, _)
cleanLinks_KeepsDuplicates(links, nodeIds, i) ==
    IF i > Len(links) THEN << >>
    ELSE (IF links[i].source \in nodeIds /\ links[i].target \in nodeIds
          THEN <<links[i]>> ELSE << >>) \o cleanLinks_KeepsDuplicates(links, nodeIds, i + 1)

\* cleanLinks: the links from index i on that pass the filter of the listener
RECURSIVE cleanLinks(_, _, _)
cleanLinks(links, nodeIds, i) ==
    IF i > Len(links) THEN << >>
    ELSE (IF /\ i = FindIndex(links, links[i])
             /\ links[i].source \in nodeIds
             /\ links[i].target \in nodeIds
          THEN <<links[i]>> ELSE << >>) \o cleanLinks(links, nodeIds, i + 1)

\* what the listener hands to Graph.graphData for a message
Rendering(data) ==
    [nodes |-> data.nodes,
     links |-> cleanLinks(data.links, {data.nodes[i].id : i \in 1..Len(data.nodes)}, 1)]

\* the message listener of the webview takes an updateData message; it
\* returns at once while Graph is undefined
Deliver(p) ==
    /\ life[p] = "live"
    /\ inbox[p] # << >>
    /\ inbox' = [inbox EXCEPT ![p] = Tail(@)]
    /\ IF graph[p] = "undefined"
       THEN UNCHANGED <<graphData, rendered>>
       ELSE /\ graphData' = [graphData EXCEPT ![p] = Head(inbox[p])]
            /\ rendered' = [rendered EXCEPT ![p] = Rendering(Head(inbox[p]))]
    /\ UNCHANGED <<scanVars, workspace, currentPanel, life, disposables, disposeCalls,
                   disposedVia, lastCommand, updates, posts, lastData, libs, graph>>

\* the extension before the command has run
HostIdle ==
    /\ currentPanel = 0
    /\ life = [p \in Panels |-> "none"]
    /\ disposables = [p \in Panels |-> << >>]
    /\ disposeCalls = [p \in Panels |-> [x \in {"onDidDispose", "onDidReceiveMessage"} |-> 0]]
    /\ disposedVia = [p \in Panels |-> "none"]
    /\ lastCommand = "none"
    /\ updates = [p \in Panels |-> << >>]
    /\ posts = [p \in Panels |-> << >>]
    /\ lastData = [p \in Panels |-> NoData]
    /\ libs = [p \in Panels |-> FALSE]
    /\ graph = [p \in Panels |-> "undefined"]
    /\ inbox = [p \in Panels |-> << >>]
    /\ graphData = [p \in Panels |-> NoData]
    /\ rendered = [p \in Panels |-> NoData]

(***************************************************************************)
(* The initial states: a tree, the entries that fail, and a scanner that   *)
(* has been constructed on it (its constructor read the root .gitignore).  *)
(***************************************************************************)
FilesOf(tree) == {e.path : e \in {f \in tree : f.kind = "file"}}

DirsOf(tree) == {e.path : e \in {f \in tree : f.kind = "dir"}}

ScannerOver(entries) ==
    /\ rootKind \in {"dir", "file", "missing"}
    /\ fs \in {t \in SUBSET entries : Cardinality(t) <= MaxEntries /\ WellFormed(t)}
    /\ rootKind # "dir" => fs = {}
    /\ statFails \in SUBSET FilesOf(fs)
    /\ readFails \in SUBSET FilesOf(fs)
    /\ listFails \in SUBSET (DirsOf(fs) \cup {""})
    /\ Cardinality(statFails) + Cardinality(readFails) + Cardinality(listFails) <= MaxFaults
    /\ ".gitignore" \notin readFails
    /\ ig = loadGitignore(rootKind, fs)
    /\ cur = 0
    /\ heapNodes = [g \in 0..MaxScans |-> << >>]
    /\ heapLinks = [g \in 0..MaxScans |-> << >>]
    /\ status = [c \in Calls |-> "idle"]
    /\ stack = [c \in Calls |-> << >>]
    /\ result = [c \in Calls |-> NoGraph]
    /\ treeAt = [c \in Calls |-> {}]
    /\ awaited = [c \in Calls |-> << >>]

InitOver(entries) == ScannerOver(entries) /\ workspace = TRUE /\ HostIdle

Init == InitOver(Universe)

Next ==
    \E c \in Calls :
        \/ Scan(c)
        \/ ReaddirOk(c)
        \/ ReaddirFail(c)
        \/ StatOk(c)
        \/ StatFail(c)
        \/ ReadOk(c)
        \/ ReadFail(c)

Spec == Init /\ [][Next]_vars

\* the same scanner on trees made of the entries for the resolution of imports
InitResolve == InitOver(ResolveUniverse)

SpecResolve == InitResolve /\ [][Next]_vars

\* the same scanner on trees made of the entries for the order of the probing
InitProbe == InitOver(ProbeUniverse)

SpecProbe == InitProbe /\ [][Next]_vars

(***************************************************************************)
(* The tree edited between two scans of the same scanner: one entry is     *)
(* removed, created or rewritten after a scan() has settled and before the *)
(* next one is invoked.                                                    *)
(***************************************************************************)
ChangeUniverse == {e \in Universe : e.path \in {".gitignore", "a.ts", "b.ts", "sub", "sub/index.ts"}}

\* a scan has settled, another one can follow, and the tree is still the
\* one that scan was invoked on
BetweenScans ==
    /\ rootKind = "dir"
    /\ \A c \in Calls : status[c] # "running"
    /\ \E c \in Calls :
           /\ status[c] \in {"resolved", "rejected"}
           /\ c < MaxScans /\ status[c + 1] = "idle"
           /\ fs = treeAt[c]

EditTo(tree) ==
    /\ BetweenScans
    /\ WellFormed(tree) /\ Cardinality(tree) <= MaxEntries
    /\ fs' = tree
    /\ UNCHANGED <<hostVars, rootKind, treeAt, awaited, statFails, readFails, listFails, ig, cur,
                   heapNodes, heapLinks, status, stack, result>>

RemoveEntry(e) == e \in fs /\ EditTo(fs \ {e})

CreateEntry(e) == e.path \notin Paths(fs) /\ EditTo(fs \cup {e})

RewriteEntry(e, f) == e \in fs /\ f # e /\ f.path = e.path /\ EditTo((fs \ {e}) \cup {f})

NextChange ==
    \/ Next
    \/ \E e \in ChangeUniverse : RemoveEntry(e)
    \/ \E e \in ChangeUniverse : CreateEntry(e)
    \/ \E e, f \in ChangeUniverse : RewriteEntry(e, f)

InitChange == InitOver(ChangeUniverse)

SpecChange == InitChange /\ [][NextChange]_vars

(***************************************************************************)
(* Progress.  A running call is suspended at an operation of the file      *)
(* system; the operation settles, one way or the other, and the call       *)
(* resumes.  What the resumed call does is one of the actions of Next.     *)
(***************************************************************************)
Resume(c) ==
    /\ status[c] = "running"
    /\ awaited' = [awaited EXCEPT ![c] = Append(@, Pending(c))]

InitLive == InitOver(LinkUniverse)

SpecLive == InitLive /\ [][Next]_vars /\ \A c \in Calls : WF_awaited(Resume(c))

(***************************************************************************)
(* Overlapping calls: scan() may be invoked again on the same scanner      *)
(* while an earlier call is suspended; the calls then interleave at their  *)
(* awaits.                                                                 *)
(***************************************************************************)
OverlapUniverse == {e \in Universe : e.path \in {"a.ts", "b.ts", "sub", "sub/index.ts", "x.txt"}}

NextOverlap ==
    \/ Next
    \/ \E c \in Calls : ScanAgain(c)

InitOverlap == InitOver(OverlapUniverse)

SpecOverlap == InitOverlap /\ [][NextOverlap]_vars

(***************************************************************************)
(* The panel: the command, the updates of the panels it opens and their    *)
(* webviews, over an empty workspace folder or none.                       *)
(***************************************************************************)
NextPanel ==
    \/ createOrShow
    \/ \E p \in Panels :
           \/ Refresh(p)
           \/ \E k \in 1..(MaxRefreshes + 1) : \/ \E data \in Graphs : ScanResolves(p, k, data)
                                       \/ ScanRejects(p, k)
           \/ ClosePanel(p)
           \/ DisposeCall(p)
           \/ LibsLoad(p)
           \/ initGraph(p)
           \/ Deliver(p)

InitPanel == ScannerOver({}) /\ rootKind = "dir" /\ workspace \in BOOLEAN /\ HostIdle

SpecPanel == InitPanel /\ [][NextPanel]_vars

(***************************************************************************)
(* What a finished call returned.                                          *)
(***************************************************************************)
Resolved(c) == status[c] = "resolved"

Rejected(c) == status[c] = "rejected"

GraphNodes(c) == heapNodes[result[c]]

GraphLinks(c) == heapLinks[result[c]]

NodeIds(c) == {GraphNodes(c)[i].id : i \in 1..Len(GraphNodes(c))}

TypeOK ==
    /\ cur \in 0..MaxScans
    /\ \A c \in Calls : status[c] \in {"idle", "running", "resolved", "rejected"}
    /\ \A c \in Calls : (status[c] = "running") = (stack[c] # << >>)
    /\ \A c \in Calls : (result[c] # NoGraph) = Resolved(c)

(***************************************************************************)
(* The terms of the properties, stated on the tree and not on the walk.    *)
(***************************************************************************)
AllowList ==
    {".ts", ".tsx", ".js", ".jsx", ".css", ".scss", ".html", ".py", ".java",
     ".c", ".cpp", ".h", ".json", ".md", ".go", ".rs", ".php"}

StructuralDirs == {"node_modules", "dist", "out", "build", "target", "vendor"}

\* p and the directories above it
Levels(p) == LET s == Segments(p) IN {JoinSegments(SubSeq(s, 1, k)) : k \in 1..Len(s)}

\* the directories above p
DirsAbove(p) == Levels(p) \ {p}

\* the dotfile rule: a leading ".", unless a regular file named .gitignore
DotEntry(p) ==
    StartsWith(Basename(p), ".") /\ ~(Basename(p) = ".gitignore" /\ IsFile(fs, p))

Finished(c) == status[c] \in {"resolved", "rejected"}

RootListable == rootKind = "dir" /\ "" \notin listFails

Unreadable(p) == p \in statFails \/ p \in readFails

\* a regular file that every rule lets through, at every level of its path
PassesRules(p) ==
    /\ IsFile(fs, p)
    /\ ToLowerCase(ExtName(p)) \in AllowList
    /\ \A q \in Levels(p) : ~DotEntry(q) /\ Basename(q) \notin StructuralDirs /\ ~Ignores(ig, q)

Accepted(p) == ~Unreadable(p) /\ PassesRules(p)

Occurrences(nodes, p) == {i \in 1..Len(nodes) : nodes[i].id = p}

HasLink(c, s, t) == \E i \in 1..Len(GraphLinks(c)) : GraphLinks(c)[i] = [source |-> s, target |-> t]

\* every Node of every array allocated so far
AllNodeIds == UNION {{heapNodes[g][i].id : i \in 1..Len(heapNodes[g])} : g \in 0..MaxScans}

(***************************************************************************)
(* C1.  Index fallback: a.ts at the scan root imports './sub', no file     *)
(* sub.ts, sub.tsx, sub.js, sub.jsx, sub.css or sub.scss exists and the    *)
(* directory sub holds index.ts: the returned graph has the Link           *)
(* a.ts -> sub/index.ts and no Link a.ts -> sub.                           *)
(***************************************************************************)
C1_Case(c) ==
    /\ Resolved(c)
    /\ "a.ts" \in NodeIds(c)
    /\ IsDir(fs, "sub") /\ IsFile(fs, "sub/index.ts")
    /\ \A e \in {".ts", ".tsx", ".js", ".jsx", ".css", ".scss"} : ("sub" \o e) \notin Paths(fs)

C1_IndexFallback ==
    \A c \in Calls :
        C1_Case(c) => HasLink(c, "a.ts", "sub/index.ts") /\ ~HasLink(c, "a.ts", "sub")

(***************************************************************************)
(* C2.  A sub-directory whose listing fails is skipped: with a listable    *)
(* root scan() does not reject, and in the returned graph every accepted   *)
(* file outside the failing directories has its Node.                      *)
(***************************************************************************)
C2_SubdirFailureRecovered ==
    \A c \in Calls :
        RootListable =>
            /\ ~Rejected(c)
            /\ Resolved(c) =>
                   \A p \in Paths(fs) :
                       Accepted(p) /\ DirsAbove(p) \cap listFails = {} => p \in NodeIds(c)

(***************************************************************************)
(* C3.  A file whose stat or read fails does not stop the scan: when every *)
(* directory can be listed scan() does not reject, the failing file has no *)
(* Node and is the source of no Link, and every other accepted file has    *)
(* its Node.                                                               *)
(***************************************************************************)
C3_FileErrorIsolated ==
    \A c \in Calls :
        rootKind = "dir" /\ listFails = {} =>
            /\ ~Rejected(c)
            /\ Resolved(c) =>
                   /\ \A p \in Paths(fs) : p \in NodeIds(c) \/ ~Accepted(p)
                   /\ \A p \in Paths(fs) :
                          Unreadable(p) =>
                              /\ p \notin NodeIds(c)
                              /\ \A i \in 1..Len(GraphLinks(c)) : GraphLinks(c)[i].source # p

C3_Witness ==
    \E c \in Calls : \E p, q \in Paths(fs) :
        /\ Resolved(c)
        /\ PassesRules(p) /\ Unreadable(p)
        /\ Accepted(q) /\ q \in NodeIds(c)

(***************************************************************************)
(* C4.  When the scan root is missing, is not a directory or cannot be     *)
(* listed, scan() never resolves and hands no graph to its caller; once    *)
(* the listing has failed the call is rejected.                            *)
(***************************************************************************)
C4_RootFailureRejects ==
    \A c \in Calls :
        ~RootListable =>
            /\ ~Resolved(c)
            /\ result[c] = NoGraph
            /\ status[c] # "idle" /\ stack[c] = << >> => Rejected(c)

C4_Witness == \E c \in Calls : Rejected(c) /\ ~RootListable

(***************************************************************************)
(* C5.  In the graph a scan() returns, every accepted file is the id of    *)
(* exactly one Node and no two Nodes share an id.                          *)
(***************************************************************************)
C5_OneNodePerAcceptedFile ==
    \A c \in Calls :
        Resolved(c) =>
            /\ \A p \in Paths(fs) : Cardinality(Occurrences(GraphNodes(c), p)) = 1 \/ ~Accepted(p)
            /\ \A i, j \in 1..Len(GraphNodes(c)) :
                   GraphNodes(c)[i].id = GraphNodes(c)[j].id => i = j

C5_Witness ==
    \E c \in Calls : \E p, q, r \in Paths(fs) :
        /\ Resolved(c)
        /\ p # q /\ Accepted(p) /\ Accepted(q)
        /\ IsFile(fs, r) /\ ~Accepted(r)
        /\ Len(GraphNodes(c)) = 2

(***************************************************************************)
(* C6.  As claimed: in every returned graph both ends of every Link are    *)
(* ids of Nodes of that graph.                                             *)
(***************************************************************************)
C6_LinkEndsAreNodes ==
    \A c \in Calls :
        Resolved(c) =>
            \A i \in 1..Len(GraphLinks(c)) :
                GraphLinks(c)[i].source \in NodeIds(c) /\ GraphLinks(c)[i].target \in NodeIds(c)

(***************************************************************************)
(* C6, amended.  In every returned graph the source of every Link is the   *)
(* id of a Node of that graph, and its target is a path that does not      *)
(* leave the scan root and names an existing entry of the tree, which may  *)
(* be a directory or a file without a Node.                                *)
(***************************************************************************)
ExistsInTree(p) == p = "" \/ p \in Paths(fs)

C6_LinkSourceIsNodeTargetExists ==
    \A c \in Calls :
        Resolved(c) =>
            \A i \in 1..Len(GraphLinks(c)) :
                /\ GraphLinks(c)[i].source \in NodeIds(c)
                /\ ExistsInTree(GraphLinks(c)[i].target)
                /\ ~StartsWith(GraphLinks(c)[i].target, "..")

\* a returned graph with a Link to a Node and a Link to a file without Node
C6_Witness ==
    \E c \in Calls :
        /\ Resolved(c)
        /\ \E i, j \in 1..Len(GraphLinks(c)) :
               /\ GraphLinks(c)[i].target \in NodeIds(c)
               /\ GraphLinks(c)[j].target \notin NodeIds(c)
               /\ IsFile(fs, GraphLinks(c)[j].target)

(***************************************************************************)
(* C7.  No Node is ever made for a file below a directory named            *)
(* node_modules, dist, out, build, target or vendor, whatever the ignore   *)
(* rules say.                                                              *)
(***************************************************************************)
C7_StructuralExclusion ==
    \A p \in AllNodeIds : \A q \in DirsAbove(p) : Basename(q) \notin StructuralDirs

\* a finished scan of a tree with a supported file below node_modules that
\* the ignore rules re-include
C7_Witness ==
    \E c \in Calls :
        /\ Resolved(c)
        /\ IsFile(fs, "node_modules/m.js")
        /\ \E i \in 1..Len(ig) : ig[i].neg /\ ig[i].target = "node_modules"
        /\ ~Ignores(ig, "node_modules/m.js")

(***************************************************************************)
(* C8.  The walk never descends into a directory whose name starts with    *)
(* "." and never makes a Node below one.                                   *)
(***************************************************************************)
C8_DotfileRule ==
    /\ \A c \in Calls : \A k \in 1..Len(stack[c]) :
           \A q \in Levels(stack[c][k].dir) : ~StartsWith(Basename(q), ".")
    /\ \A p \in AllNodeIds : \A q \in Levels(p) : ~DotEntry(q)

(***************************************************************************)
(* C9.  No Node is ever made for a path the loaded ignore rules match; in  *)
(* particular with the rule build/ there is no Node below build.           *)
(***************************************************************************)
C9_IgnoreRespected ==
    \A p \in AllNodeIds :
        /\ ~Ignores(ig, p)
        /\ (\E i \in 1..Len(ig) : ig[i] = ParseRule("build/")) => Segments(p)[1] # "build"

\* a finished scan that made a Node, of a tree with a file that only the
\* ignore rules keep out
C9_Witness ==
    \E c \in Calls : \E p \in Paths(fs) :
        /\ Resolved(c)
        /\ GraphNodes(c) # << >>
        /\ IsFile(fs, p) /\ Ignores(ig, p) /\ ~Unreadable(p)
        /\ \A q \in Levels(p) : ~DotEntry(q) /\ Basename(q) \notin StructuralDirs
        /\ ToLowerCase(ExtName(p)) \in AllowList

(***************************************************************************)
(* C10.  No Node is ever made for a file whose lower-cased extension is    *)
(* outside the allow-list.                                                 *)
(***************************************************************************)
C10_ExtensionFilter ==
    \A p \in AllNodeIds : ToLowerCase(ExtName(p)) \in AllowList

\* a finished scan that made a Node, of a tree with a visible file of an
\* unsupported extension
C10_Witness ==
    \E c \in Calls :
        /\ Resolved(c)
        /\ GraphNodes(c) # << >>
        /\ IsFile(fs, "x.txt") /\ ~Ignores(ig, "x.txt") /\ ~Unreadable("x.txt")

(***************************************************************************)
(* More terms of the properties.                                           *)
(***************************************************************************)
\* the content of the file p of the tree
ContentOf(tree, p) == EntryAt(tree, p).text

LinksFrom(c, s) == {i \in 1..Len(GraphLinks(c)) : GraphLinks(c)[i].source = s}

IsPython(p) == ToLowerCase(ExtName(p)) = ".py"

\* the paths a relative import of the file s may settle on: the resolved
\* path itself and the resolved path with each probed suffix
Candidates(s, arg) ==
    LET exact == ResolveRelative(Dirname(s), arg)
    IN {exact} \cup {exact \o suf : suf \in {".ts", ".tsx", ".js", ".jsx", ".css", ".scss",
                                              "/index.ts", "/index.js"}}

\* the import statements of the file s that start with "."
RelativeImports(tree, s) ==
    {i \in 1..Len(ContentOf(tree, s)) :
        /\ ContentOf(tree, s)[i].kind \in {"from", "require", "dynamic", "cssimport", "url"}
        /\ StartsWith(ContentOf(tree, s)[i].arg, ".")}

(***************************************************************************)
(* C11.  Extension probing: a.ts imports './b', b.ts exists next to it and *)
(* nothing is named b: the returned graph has the Link a.ts -> b.ts.       *)
(***************************************************************************)
C11_Case(c) ==
    /\ Resolved(c)
    /\ "a.ts" \in NodeIds(c)
    /\ IsFile(fs, "b.ts")
    /\ "b" \notin Paths(fs)

C11_ExtensionProbing == \A c \in Calls : C11_Case(c) => HasLink(c, "a.ts", "b.ts")

C11_Witness == \E c \in Calls : C11_Case(c)

(***************************************************************************)
(* C12.  Python dotted import: m.py holds `from pkg.sub import y`; the     *)
(* returned graph has the Link m.py -> pkg/sub.py exactly when pkg/sub.py  *)
(* exists.                                                                 *)
(***************************************************************************)
C12_PythonDottedImport ==
    \A c \in Calls :
        Resolved(c) /\ "m.py" \in NodeIds(c) =>
            (HasLink(c, "m.py", "pkg/sub.py") <=> IsFile(fs, "pkg/sub.py"))

(***************************************************************************)
(* C15.  No edge for an external import: every Link of a file that is not  *)
(* Python stems from an import that starts with "."; e.ts, which imports   *)
(* 'react', has no Link to react or react.ts even when they exist.         *)
(***************************************************************************)
C15_NoEdgeForExternalImport ==
    \A c \in Calls :
        Resolved(c) =>
            /\ \A i \in 1..Len(GraphLinks(c)) :
                   LET l == GraphLinks(c)[i] IN
                   ~IsPython(l.source) =>
                       \E k \in RelativeImports(fs, l.source) :
                           l.target \in Candidates(l.source, ContentOf(fs, l.source)[k].arg)
            /\ ~HasLink(c, "e.ts", "react") /\ ~HasLink(c, "e.ts", "react.ts")

C15_Witness ==
    \E c \in Calls :
        /\ Resolved(c)
        /\ "e.ts" \in NodeIds(c)
        /\ IsFile(fs, "react") /\ IsFile(fs, "react.ts")

(***************************************************************************)
(* C16.  No edge for an unresolved relative import: a relative import none *)
(* of whose candidates exists yields no Link, the importing file keeps its *)
(* Node, every other accepted file has its Node and the scan does not      *)
(* reject for it.                                                          *)
(***************************************************************************)
Unresolvable(s, arg) == \A t \in Candidates(s, arg) : ~ExistsInTree(t)

C16_NoEdgeForUnresolvedImport ==
    \A c \in Calls :
        /\ rootKind = "dir" /\ listFails = {} => ~Rejected(c)
        /\ Resolved(c) =>
               /\ \A p \in Paths(fs) : p \in NodeIds(c) \/ ~Accepted(p)
               /\ \A s \in NodeIds(c) : \A k \in RelativeImports(fs, s) :
                      Unresolvable(s, ContentOf(fs, s)[k].arg) =>
                          \A t \in Candidates(s, ContentOf(fs, s)[k].arg) : ~HasLink(c, s, t)

\* e.ts, which imports './missing', has its Node, and so has another file
C16_Witness ==
    \E c \in Calls :
        /\ Resolved(c)
        /\ "e.ts" \in NodeIds(c)
        /\ Unresolvable("e.ts", "./missing")
        /\ Len(GraphNodes(c)) > 1

(***************************************************************************)
(* C17.  No Link ever has a target that leaves the scan root; e.ts, which  *)
(* imports '../o', has no Link to ../o.ts even when that file exists.      *)
(***************************************************************************)
AllLinks == UNION {{heapLinks[g][i] : i \in 1..Len(heapLinks[g])} : g \in 0..MaxScans}

LeavesRoot(p) == LET s == NormSegs(Segments(p), << >>) IN s # << >> /\ s[1] = ".."

C17_NoEscapeFromRoot ==
    /\ \A l \in AllLinks : ~LeavesRoot(l.target)
    /\ \A c \in Calls : Resolved(c) => ~HasLink(c, "e.ts", "../o.ts")

C17_Witness ==
    \E c \in Calls :
        /\ Resolved(c)
        /\ "e.ts" \in NodeIds(c)
        /\ IsFile(fs, "../o.ts")

(***************************************************************************)
(* C13.  The ignore rules are those of the .gitignore of the tree a scan   *)
(* is invoked on: in the returned graph no Node is ignored by them and     *)
(* every file they let through, and that is otherwise accepted, has its    *)
(* Node.                                                                   *)
(***************************************************************************)
RulesAt(c) == loadGitignore(rootKind, treeAt[c])

PassesRulesIn(tree, rules, p) ==
    /\ IsFile(tree, p)
    /\ ToLowerCase(ExtName(p)) \in AllowList
    /\ \A q \in Levels(p) :
           /\ ~(StartsWith(Basename(q), ".") /\ ~(Basename(q) = ".gitignore" /\ IsFile(tree, q)))
           /\ Basename(q) \notin StructuralDirs
           /\ ~Ignores(rules, q)

C13_RulesPerScan ==
    \A c \in Calls :
        Resolved(c) =>
            \A p \in Paths(treeAt[c]) :
                /\ p \in NodeIds(c) => ~Ignores(RulesAt(c), p)
                /\ ~Unreadable(p) /\ PassesRulesIn(treeAt[c], RulesAt(c), p) => p \in NodeIds(c)

(***************************************************************************)
(* C14.  The type of every Node is the lower-cased extension of its file.  *)
(***************************************************************************)
AllNodes == UNION {{heapNodes[g][i] : i \in 1..Len(heapNodes[g])} : g \in 0..MaxScans}

C14_TypeIsLowerCased == \A n \in AllNodes : n.type = ToLowerCase(ExtName(n.id))

(***************************************************************************)
(* C18.  Two scans of an unchanged tree return the same set of Nodes and   *)
(* the same multiset of Links.                                             *)
(***************************************************************************)
NodeSet(c) == {GraphNodes(c)[i] : i \in 1..Len(GraphNodes(c))}

LinkSet(c) == {GraphLinks(c)[i] : i \in 1..Len(GraphLinks(c))}

LinkCount(c, l) == Cardinality({i \in 1..Len(GraphLinks(c)) : GraphLinks(c)[i] = l})

C18_Idempotent ==
    \A c, d \in Calls :
        Resolved(c) /\ Resolved(d) /\ treeAt[c] = treeAt[d] =>
            /\ NodeSet(c) = NodeSet(d)
            /\ \A l \in LinkSet(c) \cup LinkSet(d) : LinkCount(c, l) = LinkCount(d, l)

\* two scans have returned graphs with Nodes and Links
C18_Witness ==
    \E c, d \in Calls :
        /\ c # d /\ Resolved(c) /\ Resolved(d)
        /\ Len(GraphNodes(d)) > 1 /\ GraphLinks(d) # << >>

(***************************************************************************)
(* C19.  The graph a scan returns holds only what that scan found: every   *)
(* Node is a file of the tree the scan was invoked on and occurs once,     *)
(* every Link starts at such a Node and ends at an entry of that tree, and *)
(* a file has no more Links than import statements.                        *)
(***************************************************************************)
C19_NothingLeftOver ==
    \A c \in Calls :
        Resolved(c) =>
            /\ \A i \in 1..Len(GraphNodes(c)) : IsFile(treeAt[c], GraphNodes(c)[i].id)
            /\ \A i, j \in 1..Len(GraphNodes(c)) :
                   GraphNodes(c)[i].id = GraphNodes(c)[j].id => i = j
            /\ \A i \in 1..Len(GraphLinks(c)) :
                   /\ GraphLinks(c)[i].source \in NodeIds(c)
                   /\ GraphLinks(c)[i].target \in Paths(treeAt[c]) \cup {""}
            /\ \A s \in NodeIds(c) :
                   Cardinality(LinksFrom(c, s)) <= Len(ContentOf(treeAt[c], s))

\* a second scan has returned a graph with a Node, after a file that has a
\* Node in the first graph was removed
C19_Witness ==
    \E c \in Calls : \E p \in Paths(treeAt[c]) :
        /\ c < MaxScans
        /\ Resolved(c) /\ Resolved(c + 1)
        /\ p \in NodeIds(c)
        /\ p \notin Paths(treeAt[c + 1])
        /\ GraphNodes(c + 1) # << >>

(***************************************************************************)
(* C20.  The preview of every Node is the first min(10, n) of the n lines  *)
(* of its file, "\n" between them; for a file of more than 10 lines it is  *)
(* not the whole content.                                                  *)
(***************************************************************************)
LinesOfFile(p) == [i \in 1..Len(ContentOf(fs, p)) |-> RenderLine(ContentOf(fs, p)[i])]

RECURSIVE JoinedBy(_, _)
JoinedBy(seq, sep) ==
    IF seq = << >> THEN ""
    ELSE JoinedBy(SubSeq(seq, 1, Len(seq) - 1), sep)
         \o (IF Len(seq) > 1 THEN sep ELSE "") \o seq[Len(seq)]

FirstLines(p) ==
    LET n == Len(LinesOfFile(p))
    IN JoinedBy(SubSeq(LinesOfFile(p), 1, IF n < 10 THEN n ELSE 10), "\n")

C20_PreviewTruncation ==
    \A n \in AllNodes :
        /\ n.preview = FirstLines(n.id)
        /\ Len(LinesOfFile(n.id)) > 10 => n.preview # JoinedBy(LinesOfFile(n.id), "\n")

\* a graph with the Node of a file of more than 10 lines and the Node of
\* a shorter file
C20_Witness ==
    \E c \in Calls :
        /\ Resolved(c)
        /\ \E p, q \in NodeIds(c) : Len(LinesOfFile(p)) > 10 /\ Len(LinesOfFile(q)) < 10

(***************************************************************************)
(* The target a relative import is expected to settle on, by the order of  *)
(* the suffixes.                                                           *)
(***************************************************************************)
ProbeSuffixes == <<".ts", ".tsx", ".js", ".jsx", ".css", ".scss", "/index.ts", "/index.js">>

ExactTarget(s, arg) == ResolveRelative(Dirname(s), arg)

FirstCandidate(s, arg) ==
    LET hits == {i \in 1..Len(ProbeSuffixes) : ExistsInTree(ExactTarget(s, arg) \o ProbeSuffixes[i])}
    IN IF hits = {} THEN ExactTarget(s, arg)
       ELSE ExactTarget(s, arg) \o ProbeSuffixes[CHOOSE i \in hits : \A j \in hits : i <= j]

ExpectedTarget(s, arg) ==
    IF ExistsInTree(ExactTarget(s, arg)) THEN ExactTarget(s, arg) ELSE FirstCandidate(s, arg)

HasTarget(s, arg) ==
    /\ StartsWith(arg, ".")
    /\ ~LeavesRoot(ExpectedTarget(s, arg))
    /\ ExistsInTree(ExpectedTarget(s, arg))

(***************************************************************************)
(* C22.  Probe order: the targets of the Links of a file are exactly the   *)
(* targets of its relative imports, where the target of an import is its   *)
(* resolved path when that exists and otherwise the first existing one of  *)
(* path + .ts, .tsx, .js, .jsx, .css, .scss, /index.ts, /index.js in that  *)
(* order; with q.ts and q.js present and no q, './q' links to q.ts and not *)
(* to q.js.                                                                *)
(***************************************************************************)
C22_ProbeOrder ==
    \A c \in Calls :
        Resolved(c) =>
            /\ \A s \in NodeIds(c) :
                   ~IsPython(s) =>
                       {GraphLinks(c)[i].target : i \in LinksFrom(c, s)}
                           = {ExpectedTarget(s, ContentOf(fs, s)[k].arg) :
                                  k \in {j \in RelativeImports(fs, s) :
                                             HasTarget(s, ContentOf(fs, s)[j].arg)}}
            /\ ("p.ts" \in NodeIds(c) /\ {"q.ts", "q.js"} \subseteq Paths(fs) /\ "q" \notin Paths(fs)
                    => HasLink(c, "p.ts", "q.ts") /\ ~HasLink(c, "p.ts", "q.js"))

\* p.ts scanned with q.ts and q.js next to it and no q
C22_Witness ==
    \E c \in Calls :
        /\ Resolved(c)
        /\ "p.ts" \in NodeIds(c)
        /\ {"q.ts", "q.js"} \subseteq Paths(fs) /\ "q" \notin Paths(fs)

(***************************************************************************)
(* C23.  No deduplication: the Links of a file, in the order they stand in *)
(* the returned graph, are one per import occurrence that has a target, in *)
(* the order of the occurrences in the content.                            *)
(***************************************************************************)
LinkSeqFrom(c, s) == SelectSeq(GraphLinks(c), LAMBDA l : l.source = s)

RECURSIVE ExpectedLinksFrom(_, _)
ExpectedLinksFrom(s, k) ==
    IF k = 0 THEN << >>
    ELSE LET line == ContentOf(fs, s)[k]
         IN ExpectedLinksFrom(s, k - 1)
            \o (IF k \in RelativeImports(fs, s) /\ HasTarget(s, line.arg)
                THEN <<[source |-> s, target |-> ExpectedTarget(s, line.arg)]>>
                ELSE << >>)

C23_NoDeduplication ==
    \A c \in Calls :
        Resolved(c) =>
            \A s \in NodeIds(c) :
                ~IsPython(s) => LinkSeqFrom(c, s) = ExpectedLinksFrom(s, Len(ContentOf(fs, s)))

\* p.ts scanned with q.ts next to it and no q: './q' three times and
\* './q.ts' once give four Links p.ts -> q.ts
C23_Witness ==
    \E c \in Calls :
        /\ Resolved(c)
        /\ "p.ts" \in NodeIds(c)
        /\ "q.ts" \in Paths(fs) /\ "q" \notin Paths(fs)
        /\ LinkCount(c, [source |-> "p.ts", target |-> "q.ts"]) = 4

(***************************************************************************)
(* C26.  Overlapping scans on one scanner: every call that resolves        *)
(* returns a graph in which each accepted file is the id of exactly one    *)
(* Node and no id occurs twice, also after the other call has gone on.     *)
(***************************************************************************)
C26_OverlapSafe ==
    \A c \in Calls :
        Resolved(c) =>
            /\ \A p \in Paths(fs) : Accepted(p) => Cardinality(Occurrences(GraphNodes(c), p)) = 1
            /\ \A i, j \in 1..Len(GraphNodes(c)) :
                   GraphNodes(c)[i].id = GraphNodes(c)[j].id => i = j

(***************************************************************************)
(* C25.  Termination: every scan() that has been invoked completes, by     *)
(* resolving or rejecting, also on a tree with symbolic links and with a   *)
(* failing file; and no call requests the listing of a directory twice.    *)
(***************************************************************************)
ListedBy(c) == SelectSeq(awaited[c], LAMBDA a : a.op = "readdir")

ListedOnce(c) ==
    \A i, j \in 1..Len(ListedBy(c)) : ListedBy(c)[i].path = ListedBy(c)[j].path => i = j

OnlyDirectoriesListed(c) ==
    \A i \in 1..Len(ListedBy(c)) :
        ListedBy(c)[i].path = "" \/ IsDir(treeAt[c], ListedBy(c)[i].path)

C25_Termination ==
    /\ [](\A c \in Calls : ListedOnce(c) /\ OnlyDirectoriesListed(c))
    /\ \A c \in Calls : (status[c] = "running") ~> Finished(c)

\* a call that has completed on a tree with the link t/up to the scan root
\* and a failing file, after it has listed t
C25_Witness ==
    \E c \in Calls :
        /\ Resolved(c)
        /\ "t/up" \in Paths(fs)
        /\ statFails \cup readFails # {}
        /\ \E i \in 1..Len(ListedBy(c)) : ListedBy(c)[i].path = "t"

(***************************************************************************)
(* The panel and its webview.                                              *)
(***************************************************************************)
LivePanels == {p \in Panels : life[p] = "live"}

C21_OneLive ==
    /\ Cardinality(LivePanels) <= 1
    /\ currentPanel = 0 <=> LivePanels = {}
    /\ currentPanel # 0 => life[currentPanel] = "live"

C21_Creation ==
    \A p \in Panels :
        life[p] = "none" /\ life'[p] = "live" =>
            /\ LivePanels = {}
            /\ currentPanel' = p
            /\ \A q \in Panels \ {p} : life'[q] = life[q]

\* C21: at any time at most one panel is live and currentPanel is that
\* panel, or undefined when there is none (so that the command after a
\* disposal creates a panel); a panel is created only when none is live, and
\* a command that finds a live panel creates none.
C21_SingletonPanel == []C21_OneLive /\ [][C21_Creation]_vars

\* the second panel is live after the first was disposed, and the last
\* command found it live and revealed it
C21_Witness ==
    /\ life[1] = "disposed"
    /\ life[2] = "live"
    /\ currentPanel = 2
    /\ lastCommand = "revealed"

C30_Disposal ==
    \A p \in Panels :
        life[p] = "live" /\ life'[p] = "disposed" =>
            /\ currentPanel' = 0
            /\ disposables'[p] = << >>
            /\ \A i \in 1..Len(Registered) : disposeCalls'[p][Registered[i]] = 1

C30_DisposedOnce ==
    \A p \in Panels :
        /\ life[p] = "disposed" =>
               /\ disposables[p] = << >>
               /\ \A i \in 1..Len(Registered) : disposeCalls[p][Registered[i]] = 1
        /\ life[p] = "live" =>
               /\ disposables[p] = Registered
               /\ \A i \in 1..Len(Registered) : disposeCalls[p][Registered[i]] = 0

\* C30: a disposal, entered from onDidDispose or by a call of dispose(),
\* ends with currentPanel undefined, the list of disposables empty and each
\* registered disposable disposed exactly once, and it stays so.
C30_ReentrantDispose == []C30_DisposedOnce /\ [][C30_Disposal]_vars

\* one panel was disposed from the event and one by a call
C30_Witness ==
    \E p, q \in Panels :
        /\ life[p] = "disposed" /\ disposedVia[p] = "event"
        /\ life[q] = "disposed" /\ disposedVia[q] = "call"

SamePair(l, m) == l.source = m.source /\ l.target = m.target

IdsOf(data) == {data.nodes[i].id : i \in 1..Len(data.nodes)}

\* the indexes of the links that are the first of their pair and whose ends
\* are both nodes
KeptIndexes(data) ==
    {i \in 1..Len(data.links) :
        /\ \A j \in 1..(i - 1) : ~SamePair(data.links[j], data.links[i])
        /\ data.links[i].source \in IdsOf(data)
        /\ data.links[i].target \in IdsOf(data)}

\* the elements of seq at the indexes in S, in the order of seq
SubSequenceAt(seq, S) ==
    [k \in 1..Cardinality(S) |->
        seq[CHOOSE i \in S : Cardinality({j \in S : j < i}) = k - 1]]

\* C24: what the renderer was given for a message is the nodes of the
\* message unchanged and, in their order, the links of the message that are
\* the first of their (source, target) pair and have both ends among the
\* node ids.
C24_ConsumerCleaning ==
    \A p \in Panels :
        graphData[p] # NoData =>
            /\ rendered[p].nodes = graphData[p].nodes
            /\ rendered[p].links = SubSequenceAt(graphData[p].links, KeptIndexes(graphData[p]))

\* of the five links of GraphAB the renderer got two
C24_Witness ==
    \E p \in Panels :
        /\ graphData[p] = GraphAB
        /\ rendered[p].links = <<Link("a.ts", "b.ts"), Link("b.ts", "a.ts")>>

\* C27: the messages of a panel are posted in the order in which their
\* updates were requested, so that the last one posted is the result of the
\* latest scan.
C27_NewestPostedLast ==
    \A p \in Panels :
        \A i, j \in 1..Len(posts[p]) : i < j => posts[p][i].req < posts[p][j].req

\* C28: _update posts only while the panel is live.
C28_NoPostAfterDispose ==
    \A p \in Panels : \A i \in 1..Len(posts[p]) : posts[p][i].live

\* nothing of panel p is under way: no scan, no message, and Graph exists
Settled(p) ==
    /\ life[p] = "live"
    /\ graph[p] = "ready"
    /\ inbox[p] = << >>
    /\ \A k \in 1..Len(updates[p]) : updates[p][k] # "scanning"

====
